---------------------------- MODULE Spec2Model ----------------------------
(***************************************************************************)
(* The staking farm of src/src/lib.rs (a NEAR contract) as a state machine.*)
(*                                                                         *)
(* Balances are u128 and the reward arithmetic runs in a 512-bit unsigned  *)
(* integer (construct_uint! U256(8): eight 64-bit words), with the         *)
(* constants of Farm::new (10^18, 25, 1800, 864000, 31536000).  These do   *)
(* not fit TLC's 32-bit integers, so an unsigned integer of the program is *)
(* a Big: its little-endian sequence of base-2^15 limbs, without leading   *)
(* zero limbs (0 is <<>>), and the arithmetic is the schoolbook one.       *)
(*                                                                         *)
(* Whether a native +, -, * that overflows panics or wraps is decided by   *)
(* the build profile (overflow-checks), which is not part of the source:   *)
(* the variable overflow_checks is chosen once, in Init, and never changes.*)
(* A panic aborts the call; NEAR then discards every state change and every*)
(* promise of that call.                                                   *)
(*                                                                         *)
(* A function of the source is a chain of operators, one per group of      *)
(* statements, each taking the values the statements before it computed;   *)
(* the chain is written last statement first, as TLA+ defines before use.  *)
(***************************************************************************)
EXTENDS Integers, Sequences, FiniteSets, Bags, TLC

(***************************************************************************)
(* Unsigned integers of any width                                          *)
(***************************************************************************)
LimbBits == CHOOSE b \in 1..30 : b = 15
Base == 2^LimbBits
Zero == <<>>

RECURSIVE Strip(_)
Strip(s) == IF s = <<>> THEN s
            ELSE IF s[Len(s)] = 0 THEN Strip(SubSeq(s, 1, Len(s) - 1)) ELSE s

RECURSIVE FromNat(_)
FromNat(n) == IF n = 0 THEN <<>> ELSE <<n % Base>> \o FromNat(n \div Base)

Limb(s, i) == IF i <= Len(s) THEN s[i] ELSE 0

RECURSIVE AddFrom(_, _, _, _)
AddLimb(a, b, i, t) == <<t % Base>> \o AddFrom(a, b, i + 1, t \div Base)
AddFrom(a, b, i, carry) ==
    IF i > Len(a) /\ i > Len(b)
    THEN (IF carry = 0 THEN <<>> ELSE <<carry>>)
    ELSE AddLimb(a, b, i, Limb(a, i) + Limb(b, i) + carry)

BigAdd(a, b) == AddFrom(a, b, 1, 0)

RECURSIVE SubFrom(_, _, _, _)
SubLimb(a, b, i, t) ==
    IF t < 0 THEN <<t + Base>> \o SubFrom(a, b, i + 1, 1)
             ELSE <<t>> \o SubFrom(a, b, i + 1, 0)
SubFrom(a, b, i, borrow) ==
    IF i > Len(a) THEN <<>>
    ELSE SubLimb(a, b, i, Limb(a, i) - Limb(b, i) - borrow)

\* a - b, for b <= a
BigSub(a, b) == Strip(SubFrom(a, b, 1, 0))

RECURSIVE MulLimbFrom(_, _, _, _)
MulLimb(a, m, i, t) == <<t % Base>> \o MulLimbFrom(a, m, i + 1, t \div Base)
MulLimbFrom(a, m, i, carry) ==
    IF i > Len(a) THEN FromNat(carry)
    ELSE MulLimb(a, m, i, a[i] * m + carry)

\* low + high * Base
ShiftAdd(low, high) == BigAdd(low, IF high = <<>> THEN high ELSE <<0>> \o high)

RECURSIVE BigMul(_, _)
BigMul(a, b) ==
    IF a = <<>> \/ b = <<>> THEN <<>>
    ELSE ShiftAdd(Strip(MulLimbFrom(a, b[1], 1, 0)), BigMul(a, Tail(b)))

RECURSIVE DivFrom(_, _, _, _)
DivLimb(a, d, i, cur) == DivFrom(a, d, i - 1, cur % d) \o <<cur \div d>>
DivFrom(a, d, i, rem) ==
    IF i = 0 THEN <<>> ELSE DivLimb(a, d, i, rem * Base + a[i])

\* floor(a / d), for a divisor 0 < d < 2^16
BigDivSmall(a, d) == Strip(DivFrom(a, d, Len(a), 0))

RECURSIVE LeqFrom(_, _, _)
LeqFrom(a, b, i) ==
    IF i = 0 THEN TRUE
    ELSE IF a[i] # b[i] THEN a[i] < b[i] ELSE LeqFrom(a, b, i - 1)

BigLeq(a, b) == IF Len(a) # Len(b) THEN Len(a) < Len(b) ELSE LeqFrom(a, b, Len(a))
BigLess(a, b) == a # b /\ BigLeq(a, b)

\* a < 2^bits
FitsBits(a, bits) ==
    \/ Len(a) <= bits \div LimbBits
    \/ Len(a) = bits \div LimbBits + 1 /\ a[Len(a)] < 2^(bits % LimbBits)

\* a mod 2^bits
TruncBits(a, bits) ==
    IF FitsBits(a, bits) THEN a
    ELSE Strip(SubSeq(a, 1, bits \div LimbBits)
               \o <<a[bits \div LimbBits + 1] % 2^(bits % LimbBits)>>)

\* 2^bits
Pow2(bits) == [i \in 1..(bits \div LimbBits) |-> 0] \o <<2^(bits % LimbBits)>>

(***************************************************************************)
(* Constants and configuration (Farm::new sets it, nothing changes it)     *)
(***************************************************************************)
NO_DEPOSIT == 0
\* 10^18
OBS_PER_REWARD_DENOM == BigMul(FromNat(10^9), FromNat(10^9))
reward_rate == 1800
staking_fee_rate == 25
cliff_time == 60 * 60 * 24 * 10
reward_interval == 60 * 60 * 24 * 365

obs_token_account_id == "obs.token"
reward_token_account_id == "reward.token"
\* env::current_account_id(): the farm contract itself
current_account_id == "farm"

(***************************************************************************)
(* Bounds and inputs                                                       *)
(***************************************************************************)
\* advances of the block timestamp
MaxTicks == 2
\* stakes that commit
MaxStakes == 1
\* chains of receipts in flight
MaxPromises == 1
\* touches of the account under touch
MaxTouches == 2

Users == {"alice", "bob"}
\* who stakes and unstakes
Stakers == {"alice"}
\* the timestamp advances by one unit or by a whole lock-up period
TimeSteps == {1, cliff_time}
\* amount * (1 + staking_fee_rate * 10^18) = 1000 (mod 2^128):
\* 9806593666912972438796523435659887592
WrapAmount == <<1000, 1216, 22709, 23985, 28192, 25846, 6509, 12375, 7>>
StakeAmounts == {Zero, FromNat(1), WrapAmount}
UnstakeAmounts == {Zero, FromNat(1), FromNat(1000)}
AttachedDeposits == {0, 1}
Messages == {"Stake", "Deposit"}
\* who calls ft_on_transfer and on_transfer, and on whose behalf
Notifiers == {obs_token_account_id, "alice"}
Senders == {"alice"}
\* the account under touch: its obs_balance, its reward_balance (none, or one
\* whole reward token) and when it was deposited
TouchBalances == {Zero, FromNat(1), FromNat(1000)}
TouchRewards == {Zero, OBS_PER_REWARD_DENOM}
TouchDeposits == {0, 1}

VARIABLES
    accounts,              \* Farm.accounts: the LookupMap, a function on the stored keys
    obs_per_reward_rate,   \* Farm.obs_per_reward_rate
    total_obs_balance,     \* Farm.total_obs_balance
    total_reward_farmed,   \* Farm.total_reward_farmed
    total_reward_claimed,  \* Farm.total_reward_claimed
    block_timestamp,       \* env::block_timestamp()
    overflow_checks,       \* the build: TRUE when native overflow panics
    promises,              \* receipts scheduled since construction and not yet
                           \* executed: a bag of chains of calls
    last,                  \* the last call: what was called, with what, and how it ended
    ticks,                 \* timestamp advances so far
    stakes,                \* the stakes that returned, in order: who called, and
                           \* the account record the call built
    touches,               \* the touches of the account under touch, in order:
                           \* the record and the total they found, when, how
                           \* they ended, and the record and the total they left
    unstakes               \* by caller, the sum of what the unstakes that returned
                           \* asked the obs token to transfer to it

farm == <<accounts, obs_per_reward_rate, total_obs_balance, total_reward_farmed,
          total_reward_claimed>>
vars == <<accounts, obs_per_reward_rate, total_obs_balance, total_reward_farmed,
          total_reward_claimed, block_timestamp, overflow_checks, promises, last,
          ticks, stakes, touches, unstakes>>

\* &self / &mut self: the contract's persisted fields
Self == [accounts |-> accounts,
         obs_per_reward_rate |-> obs_per_reward_rate,
         total_obs_balance |-> total_obs_balance,
         total_reward_farmed |-> total_reward_farmed,
         total_reward_claimed |-> total_reward_claimed]

(***************************************************************************)
(* Native arithmetic: the wrapped value, and whether it overflowed         *)
(***************************************************************************)
Wrap128(p) == [overflow |-> ~FitsBits(p, 128), value |-> TruncBits(p, 128)]
U128Add(a, b) == Wrap128(BigAdd(a, b))
U128Mul(a, b) == Wrap128(BigMul(a, b))
U128Sub(a, b) ==
    IF BigLeq(b, a) THEN [overflow |-> FALSE, value |-> BigSub(a, b)]
    ELSE [overflow |-> TRUE, value |-> BigSub(BigAdd(a, Pow2(128)), b)]

\* Timestamp is u64; a and b are timestamps
U64Sub(a, b) ==
    IF b <= a THEN [overflow |-> FALSE, value |-> FromNat(a - b)]
    ELSE [overflow |-> TRUE, value |-> BigSub(Pow2(64), FromNat(b - a))]

\* s, computed from the value of r: it overflowed if either did
After(r, s) == [overflow |-> r.overflow \/ s.overflow, value |-> s.value]

\* a native operation panics on overflow only in a build with overflow checks
Panics(r) == overflow_checks /\ r.overflow

\* construct_uint! { pub struct U256(8); }: eight 64-bit words. Its operators
\* panic on overflow in every build.
U256Bits == 8 * 64
U256From(x) == [panic |-> FALSE, value |-> x]
U256Checked(panic, p) ==
    [panic |-> panic \/ ~FitsBits(p, U256Bits), value |-> TruncBits(p, U256Bits)]
U256Mul(r, s) == U256Checked(r.panic \/ s.panic, BigMul(r.value, s.value))

\* r / U256::from(self.reward_interval); reward_interval is the product of
\* IntervalFactor and a second factor, both below 2^16, and
\* floor(floor(a / f) / g) = floor(a / (f * g))
IntervalFactor ==
    CHOOSE f \in 1..(2^16 - 1) :
        reward_interval % f = 0 /\ reward_interval \div f < 2^16
U256DivInterval(r) ==
    [panic |-> r.panic,
     value |-> BigDivSmall(BigDivSmall(r.value, IntervalFactor),
                           reward_interval \div IntervalFactor)]

\* U256::as_u128 panics when the value does not fit
as_u128(r) == [panic |-> r.panic \/ ~FitsBits(r.value, 128), value |-> r.value]

(***************************************************************************)
(* Accounts                                                                *)
(***************************************************************************)
\* the 20-byte key of an account id: the first 20 bytes of its SHA-256
ShortAccountHash(account_id) == <<"sha256[..20]", account_id>>

\* the account get_mut_account makes up for an unknown key
NewAccount(self) ==
    [last_obs_per_reward_rate |-> self.obs_per_reward_rate,
     obs_balance |-> Zero,
     reward_balance |-> Zero,
     reward_claimed |-> Zero,
     deposit_time |-> 0]

\* [hash, some, account]: (account_id_hash, Option<Account>)
get_internal_account(self, account_id) ==
    [hash |-> ShortAccountHash(account_id),
     some |-> ShortAccountHash(account_id) \in DOMAIN self.accounts,
     account |-> IF ShortAccountHash(account_id) \in DOMAIN self.accounts
                 THEN self.accounts[ShortAccountHash(account_id)]
                 ELSE Zero]

save_account(self, account_id_hash, account) ==
    [self EXCEPT !.accounts =
        [h \in DOMAIN self.accounts \cup {account_id_hash} |->
            IF h = account_id_hash THEN account ELSE self.accounts[h]]]

(***************************************************************************)
(* touch: [panic, self, account, ret], the farm and the account as touch   *)
(* leaves them and the value it returns                                    *)
(***************************************************************************)
\* a variant: the multiplication by the denominator before the division
earned_balance_scaled_first(account, time_diff) ==
    as_u128(U256DivInterval(U256Mul(U256Mul(U256Mul(U256From(account.obs_balance),
                                                     U256From(time_diff)),
                                            U256From(FromNat(reward_rate))),
                                    U256From(OBS_PER_REWARD_DENOM))))

earned_balance(account, time_diff) ==
    as_u128(U256Mul(U256DivInterval(U256Mul(U256Mul(U256From(account.obs_balance),
                                                     U256From(time_diff)),
                                            U256From(FromNat(reward_rate)))),
                    U256From(OBS_PER_REWARD_DENOM)))

\* a variant: time_diff >= self.cliff_time
reached_cliff(time_diff) == BigLeq(FromNat(cliff_time), time_diff)

\* time_diff > self.cliff_time
past_cliff(time_diff) == BigLess(FromNat(cliff_time), time_diff)

TouchPanic(self, account) ==
    [panic |-> TRUE, self |-> self, account |-> account, ret |-> Zero]

\* account.reward_balance += earned_balance; self.total_reward_farmed += earned_balance
touch_add(self, account, reward, farmed) ==
    IF Panics(reward) \/ Panics(farmed) THEN TouchPanic(self, account)
    ELSE [panic |-> FALSE,
          self |-> [self EXCEPT !.total_reward_farmed = farmed.value],
          account |-> [account EXCEPT !.reward_balance = reward.value],
          ret |-> account.last_obs_per_reward_rate]

\* a variant: account.reward_balance = earned_balance, the balance set and not
\* added to
touch_earned_overwriting(self, account, time_diff, earned) ==
    IF earned.panic THEN TouchPanic(self, account)
    ELSE IF past_cliff(time_diff)
    THEN touch_add(self, account,
                   [overflow |-> FALSE, value |-> earned.value],
                   U128Add(self.total_reward_farmed, earned.value))
    ELSE [panic |-> FALSE, self |-> self, account |-> account,
          ret |-> account.last_obs_per_reward_rate]

touch_earned(self, account, time_diff, earned) ==
    IF earned.panic THEN TouchPanic(self, account)
    ELSE IF past_cliff(time_diff)
    THEN touch_add(self, account,
                   U128Add(account.reward_balance, earned.value),
                   U128Add(self.total_reward_farmed, earned.value))
    ELSE [panic |-> FALSE, self |-> self, account |-> account,
          ret |-> account.last_obs_per_reward_rate]

touch_since(self, account, time_diff) ==
    IF Panics(time_diff) THEN TouchPanic(self, account)
    ELSE touch_earned(self, account, time_diff.value,
                      earned_balance(account, time_diff.value))

touch(self, account) ==
    touch_since(self, account, U64Sub(block_timestamp, account.deposit_time))

\* [panic, self, hash, account]
get_mut_account_touched(found, t) ==
    [panic |-> t.panic, self |-> t.self, hash |-> found.hash, account |-> t.account]

get_mut_account_found(self, found) ==
    get_mut_account_touched(
        found, touch(self, IF found.some THEN found.account ELSE NewAccount(self)))

get_mut_account(self, account_id) ==
    get_mut_account_found(self, get_internal_account(self, account_id))

(***************************************************************************)
(* Promises: a receipt is a call of method on receiver_id; a chain is      *)
(* a.then(b)                                                               *)
(***************************************************************************)
Receipt(receiver_id, method, args, deposit) ==
    [receiver_id |-> receiver_id, method |-> method, args |-> args, deposit |-> deposit]

ext_fungible_token_ft_transfer(receiver_id, amount, token, deposit) ==
    Receipt(token, "ft_transfer", [receiver_id |-> receiver_id, amount |-> amount], deposit)

ext_self_on_transfer(sender, receiver, amount, contract, deposit) ==
    Receipt(contract, "on_transfer",
            [sender |-> sender, receiver |-> receiver, amount |-> amount], deposit)

(***************************************************************************)
(* The calls: [panic, self, promises, ret], the farm as the call leaves it,*)
(* the chains it scheduled and what it returned (for stake_my_obs and      *)
(* unstake_my_obs: the local account, which is dropped)                    *)
(***************************************************************************)
\* what a call that panics leaves: nothing written, nothing scheduled
Abort(self) == [panic |-> TRUE, self |-> self, promises |-> <<>>, ret |-> Zero]

Done(self, scheduled, ret) ==
    [panic |-> FALSE, self |-> self, promises |-> scheduled, ret |-> ret]

\* a variant: any attached deposit passes
assert_any_deposit(attached_deposit) == TRUE

\* near_sdk::utils::assert_one_yocto
assert_one_yocto(attached_deposit) == attached_deposit = 1

\* amount * self.staking_fee_rate * OBS_PER_REWARD_DENOM
fee_scaled(scaled) == After(scaled, U128Mul(scaled.value, OBS_PER_REWARD_DENOM))
fee_of(amount) == fee_scaled(U128Mul(amount, FromNat(staking_fee_rate)))

\* amount + fee
attached_deposit_with(amount, fee) == After(fee, U128Add(amount, fee.value))
attached_deposit_of(amount) == attached_deposit_with(amount, fee_of(amount))

obs_per_reward(attached_deposit, time_diff) ==
    as_u128(U256Mul(U256DivInterval(U256Mul(U256Mul(U256From(attached_deposit),
                                                     U256From(time_diff)),
                                            U256From(FromNat(reward_rate)))),
                    U256From(OBS_PER_REWARD_DENOM)))

\* ------------------------------------------------------------ stake_my_obs
\* a variant: the account is saved before the transfer is scheduled
stake_commit_saving(self, touched, predecessor, attached_deposit, account, rate, total) ==
    IF Panics(rate) \/ Panics(total) THEN Abort(self)
    ELSE Done(save_account([touched EXCEPT !.obs_per_reward_rate = rate.value,
                                           !.total_obs_balance = total.value],
                           ShortAccountHash(predecessor), account),
              << <<ext_fungible_token_ft_transfer(
                       current_account_id, attached_deposit,
                       obs_token_account_id, 1),
                   ext_self_on_transfer(
                       obs_token_account_id, predecessor, attached_deposit,
                       current_account_id, NO_DEPOSIT)>> >>,
              account)

\* self.obs_per_reward_rate += ..; self.total_obs_balance += ..; ft_transfer(..)
\* .then(on_transfer(..)). The account is not saved.
stake_commit(self, touched, predecessor, attached_deposit, account, rate, total) ==
    IF Panics(rate) \/ Panics(total) THEN Abort(self)
    ELSE Done([touched EXCEPT !.obs_per_reward_rate = rate.value,
                              !.total_obs_balance = total.value],
              << <<ext_fungible_token_ft_transfer(
                       current_account_id, attached_deposit,
                       obs_token_account_id, 1),
                   ext_self_on_transfer(
                       obs_token_account_id, predecessor, attached_deposit,
                       current_account_id, NO_DEPOSIT)>> >>,
              account)

stake_totals(self, touched, predecessor, attached_deposit, account, per_reward) ==
    IF per_reward.panic THEN Abort(self)
    ELSE stake_commit(self, touched, predecessor, attached_deposit, account,
                      U128Add(touched.obs_per_reward_rate, per_reward.value),
                      U128Add(touched.total_obs_balance, attached_deposit))

\* let time_diff = env::block_timestamp() - self.cliff_time; let obs_per_reward = ..
stake_rate(self, touched, predecessor, attached_deposit, account, time_diff) ==
    IF Panics(time_diff) THEN Abort(self)
    ELSE stake_totals(self, touched, predecessor, attached_deposit, account,
                      obs_per_reward(attached_deposit, time_diff.value))

\* account.last_obs_per_reward_rate = (touch's value); account.deposit_time = now
stake_touched(self, predecessor, attached_deposit, t) ==
    IF t.panic THEN Abort(self)
    ELSE stake_rate(self, t.self, predecessor, attached_deposit,
                    [t.account EXCEPT !.last_obs_per_reward_rate = t.ret,
                                      !.deposit_time = block_timestamp],
                    U64Sub(block_timestamp, cliff_time))

\* account.obs_balance = attached_deposit; account.reward_balance = 0;
\* account.reward_claimed = 0; self.touch(&mut account)
stake_account(self, predecessor, attached_deposit, got) ==
    IF got.panic THEN Abort(self)
    ELSE stake_touched(self, predecessor, attached_deposit,
                       touch(got.self,
                             [got.account EXCEPT !.obs_balance = attached_deposit,
                                                 !.reward_balance = Zero,
                                                 !.reward_claimed = Zero]))

stake_deposit(self, predecessor, attached_deposit) ==
    IF Panics(attached_deposit) THEN Abort(self)
    ELSE stake_account(self, predecessor, attached_deposit.value,
                       get_mut_account(self, predecessor))

stake_my_obs(self, predecessor, attached, amount) ==
    IF ~assert_one_yocto(attached) THEN Abort(self)
    ELSE IF ~BigLess(Zero, amount) THEN Abort(self)
    ELSE stake_deposit(self, predecessor, attached_deposit_of(amount))

\* ---------------------------------------------------------- unstake_my_obs
\* a variant: the balance is not compared
has_any_balance(account, amount) == TRUE

\* account.obs_balance >= amount
has_obs_balance(account, amount) == BigLeq(amount, account.obs_balance)

\* a variant: the lock-up is not compared
cliff_ignored(time_diff) == TRUE

\* env::block_timestamp() - account.deposit_time >= self.cliff_time
cliff_elapsed(time_diff) == BigLeq(FromNat(cliff_time), time_diff)

\* a variant: the reward token is asked for account.reward_claimed
unstake_commit_paying_reward(self, touched, predecessor, account, total, claimed, attached_deposit) ==
    IF Panics(attached_deposit) THEN Abort(self)
    ELSE Done([touched EXCEPT !.total_obs_balance = total.value,
                              !.total_reward_claimed = claimed.value],
              << <<ext_fungible_token_ft_transfer(
                       predecessor, attached_deposit.value,
                       obs_token_account_id, 1),
                   ext_fungible_token_ft_transfer(
                       predecessor, account.reward_claimed,
                       reward_token_account_id, 1)>> >>,
              account)

\* the two ft_transfer calls, chained. The account is not saved.
unstake_commit(self, touched, predecessor, account, total, claimed, attached_deposit) ==
    IF Panics(attached_deposit) THEN Abort(self)
    ELSE Done([touched EXCEPT !.total_obs_balance = total.value,
                              !.total_reward_claimed = claimed.value],
              << <<ext_fungible_token_ft_transfer(
                       predecessor, attached_deposit.value,
                       obs_token_account_id, 1),
                   ext_fungible_token_ft_transfer(
                       predecessor, attached_deposit.value,
                       reward_token_account_id, 1)>> >>,
              account)

\* self.total_reward_claimed += amount; self.total_reward_claimed += account.reward_claimed
claimed_after(principal, reward_claimed) ==
    After(principal, U128Add(principal.value, reward_claimed))

unstake_totals(self, touched, predecessor, amount, account, total, claimed) ==
    IF Panics(total) \/ Panics(claimed) THEN Abort(self)
    ELSE unstake_commit(self, touched, predecessor, account, total, claimed,
                        attached_deposit_of(amount))

\* account.obs_balance -= amount; account.reward_claimed = account.reward_balance;
\* account.reward_balance = 0; self.total_obs_balance -= amount
unstake_account(self, touched, predecessor, amount, account, balance) ==
    IF Panics(balance) THEN Abort(self)
    ELSE unstake_totals(self, touched, predecessor, amount,
                        [account EXCEPT !.obs_balance = balance.value,
                                        !.reward_claimed = account.reward_balance,
                                        !.reward_balance = Zero],
                        U128Sub(touched.total_obs_balance, amount),
                        claimed_after(U128Add(touched.total_reward_claimed, amount),
                                      account.reward_balance))

\* self.touch(&mut account)
unstake_touched(self, predecessor, amount, t) ==
    IF t.panic THEN Abort(self)
    ELSE unstake_account(self, t.self, predecessor, amount, t.account,
                         U128Sub(t.account.obs_balance, amount))

\* the two assert!s
unstake_checked(self, predecessor, amount, got, time_diff) ==
    IF ~has_obs_balance(got.account, amount) THEN Abort(self)
    ELSE IF Panics(time_diff) \/ ~cliff_elapsed(time_diff.value) THEN Abort(self)
    ELSE unstake_touched(self, predecessor, amount, touch(got.self, got.account))

unstake_found(self, predecessor, amount, got) ==
    IF got.panic THEN Abort(self)
    ELSE unstake_checked(self, predecessor, amount, got,
                         U64Sub(block_timestamp, got.account.deposit_time))

unstake_my_obs(self, predecessor, attached, amount) ==
    IF ~assert_one_yocto(attached) THEN Abort(self)
    ELSE unstake_found(self, predecessor, amount, get_mut_account(self, predecessor))

\* ------------------------------------------------- notifications, registration
\* a variant: the predecessor is not compared
from_any_account(predecessor) == TRUE

\* assert_eq!(&env::predecessor_account_id(), &self.obs_token_account_id, ..)
from_obs_token(predecessor) == predecessor = obs_token_account_id

\* a variant: the amount notified is added to total_obs_balance
on_transfer_crediting(self, predecessor, args) ==
    IF DOMAIN args # {"sender_id", "amount", "msg"} THEN Abort(self)
    ELSE IF ~(predecessor = obs_token_account_id) THEN Abort(self)
    ELSE Done([self EXCEPT !.total_obs_balance =
                   TruncBits(BigAdd(self.total_obs_balance, args.amount), 128)],
              <<>>, Zero)

\* pub fn on_transfer(&mut self, sender_id, amount, msg): a call whose arguments
\* are not these three fails to deserialize and panics
on_transfer(self, predecessor, args) ==
    IF DOMAIN args # {"sender_id", "amount", "msg"} THEN Abort(self)
    ELSE IF ~from_obs_token(predecessor) THEN Abort(self)
    ELSE Done(self, <<>>, Zero)

ft_on_transfer(self, predecessor, sender_id, amount, msg) ==
    IF ~from_obs_token(predecessor) THEN Abort(self)
    ELSE IF msg = "Stake" THEN Done(self, <<>>, Zero)
    ELSE Done(self,
              << <<ext_self_on_transfer(
                       obs_token_account_id, predecessor, amount,
                       current_account_id, NO_DEPOSIT)>> >>,
              Zero)

\* a variant: the account is not saved
register_account_got_unsaved(self, got) ==
    IF got.panic THEN Abort(self) ELSE Done(got.self, <<>>, Zero)

register_account_got(self, got) ==
    IF got.panic THEN Abort(self)
    ELSE Done(save_account(got.self, got.hash, got.account), <<>>, Zero)

register_account(self, predecessor) ==
    register_account_got(self, get_mut_account(self, predecessor))

\* ----------------------------------------------------------------- queries
account_exists(self, account_id) == get_internal_account(self, account_id).some

get_reward_balance_touched(self, t) ==
    IF t.panic THEN Abort(self) ELSE Done(t.self, <<>>, t.account.reward_balance)

get_reward_balance_found(self, found) ==
    IF ~found.some THEN Done(self, <<>>, Zero)
    ELSE get_reward_balance_touched(self, touch(self, found.account))

get_reward_balance(self, account_id) ==
    get_reward_balance_found(self, get_internal_account(self, account_id))

get_stats(self) ==
    [total_obs_balance |-> self.total_obs_balance,
     total_reward_claimed |-> self.total_reward_claimed,
     total_reward_received |-> self.total_reward_farmed]

(***************************************************************************)
(* The state machine                                                       *)
(***************************************************************************)
Called(op, caller, args) == [op |-> op, caller |-> caller, args |-> args]

\* The state after Farm::new: nothing stored. (Its two register_account
\* receipts go to the token contracts and come back to no callback; promises
\* holds the receipts scheduled after construction.)
Init ==
    /\ accounts = << >>
    /\ obs_per_reward_rate = Zero
    /\ total_obs_balance = Zero
    /\ total_reward_farmed = Zero
    /\ total_reward_claimed = Zero
    /\ block_timestamp = 0
    /\ overflow_checks \in BOOLEAN
    /\ promises = EmptyBag
    /\ last = [call |-> Called("new", current_account_id, << >>), ok |-> TRUE, ret |-> Zero]
    /\ ticks = 0
    /\ stakes = <<>>
    /\ touches = <<>>
    /\ unstakes = [account_id \in Users |-> Zero]

\* the chains a call scheduled (none, or one)
Scheduled(r) == SetToBag({r.promises[i] : i \in 1..Len(r.promises)})

\* a call ends: its writes and its promises are kept unless it panicked
Return(call, r) ==
    /\ BagCardinality(promises) + Len(r.promises) <= MaxPromises
    /\ accounts' = r.self.accounts
    /\ obs_per_reward_rate' = r.self.obs_per_reward_rate
    /\ total_obs_balance' = r.self.total_obs_balance
    /\ total_reward_farmed' = r.self.total_reward_farmed
    /\ total_reward_claimed' = r.self.total_reward_claimed
    /\ promises' = promises (+) Scheduled(r)
    /\ last' = [call |-> call, ok |-> ~r.panic, ret |-> r.ret]
    /\ UNCHANGED <<block_timestamp, overflow_checks, ticks>>

StakeReturn(call, r) ==
    /\ r.panic \/ Len(stakes) < MaxStakes
    /\ Return(call, r)
    /\ stakes' = IF r.panic THEN stakes
                 ELSE Append(stakes, [caller |-> call.caller, account |-> r.ret])

StakeMyObs ==
    \E predecessor \in Stakers, attached \in AttachedDeposits, amount \in StakeAmounts :
       /\ StakeReturn(Called("stake_my_obs", predecessor,
                             [attached |-> attached, amount |-> amount]),
                      stake_my_obs(Self, predecessor, attached, amount))
       /\ UNCHANGED <<touches, unstakes>>

\* the amount of the first transfer of the chain the call scheduled
FirstTransfer(r) == r.promises[1][1].args.amount

UnstakeReturn(call, r) ==
    /\ Return(call, r)
    /\ unstakes' = IF r.panic THEN unstakes
                   ELSE [unstakes EXCEPT ![call.caller] = BigAdd(@, FirstTransfer(r))]

UnstakeMyObs ==
    \E predecessor \in Stakers, attached \in AttachedDeposits, amount \in UnstakeAmounts :
       /\ UnstakeReturn(Called("unstake_my_obs", predecessor,
                               [attached |-> attached, amount |-> amount]),
                        unstake_my_obs(Self, predecessor, attached, amount))
       /\ UNCHANGED <<stakes, touches>>

RegisterAccount ==
    \E predecessor \in Users :
       /\ Return(Called("register_account", predecessor, << >>),
                 register_account(Self, predecessor))
       /\ UNCHANGED <<stakes, touches, unstakes>>

GetRewardBalance ==
    \E account_id \in Users :
       /\ Return(Called("get_reward_balance", account_id, [account_id |-> account_id]),
                 get_reward_balance(Self, account_id))
       /\ UNCHANGED <<stakes, touches, unstakes>>

AccountExists ==
    \E account_id \in Users :
       /\ last' = [call |-> Called("account_exists", account_id, [account_id |-> account_id]),
                   ok |-> TRUE, ret |-> account_exists(Self, account_id)]
       /\ UNCHANGED <<farm, block_timestamp, overflow_checks, promises, ticks, stakes, touches, unstakes>>

GetStats ==
    /\ last' = [call |-> Called("get_stats", current_account_id, << >>),
                ok |-> TRUE, ret |-> get_stats(Self)]
    /\ UNCHANGED <<farm, block_timestamp, overflow_checks, promises, ticks, stakes, touches, unstakes>>

FtOnTransfer ==
    \E predecessor \in Notifiers, sender_id \in Senders, msg \in Messages :
       /\ Return(Called("ft_on_transfer", predecessor,
                        [sender_id |-> sender_id, amount |-> FromNat(1), msg |-> msg]),
                 ft_on_transfer(Self, predecessor, sender_id, FromNat(1), msg))
       /\ UNCHANGED <<stakes, touches, unstakes>>

\* on_transfer is a public method: anyone may call it
OnTransfer ==
    \E predecessor \in Notifiers, sender_id \in Senders :
       /\ Return(Called("on_transfer", predecessor,
                        [sender_id |-> sender_id, amount |-> FromNat(1), msg |-> "Deposit"]),
                 on_transfer(Self, predecessor,
                        [sender_id |-> sender_id, amount |-> FromNat(1), msg |-> "Deposit"]))
       /\ UNCHANGED <<stakes, touches, unstakes>>

\* The first receipt of a chain in flight is executed; the rest of the chain
\* follows whatever the outcome. A receipt for a token contract succeeds or
\* fails there; a receipt for the farm is a call of the farm by the farm.
Executed(chain, r) ==
    /\ accounts' = r.self.accounts
    /\ obs_per_reward_rate' = r.self.obs_per_reward_rate
    /\ total_obs_balance' = r.self.total_obs_balance
    /\ total_reward_farmed' = r.self.total_reward_farmed
    /\ total_reward_claimed' = r.self.total_reward_claimed
    /\ promises' = IF Len(chain) = 1
                   THEN (promises (-) SetToBag({chain})) (+) Scheduled(r)
                   ELSE ((promises (-) SetToBag({chain})) (+) SetToBag({Tail(chain)}))
                        (+) Scheduled(r)
    /\ last' = [call |-> Called("receipt", current_account_id, Head(chain)),
                ok |-> ~r.panic, ret |-> r.ret]
    /\ UNCHANGED <<block_timestamp, overflow_checks, ticks, stakes, touches, unstakes>>

ExecuteReceipt ==
    \E chain \in BagToSet(promises), outcome \in BOOLEAN :
       IF Head(chain).receiver_id = current_account_id
       THEN outcome /\ Executed(chain, on_transfer(Self, current_account_id, Head(chain).args))
       ELSE Executed(chain, IF outcome THEN Done(Self, <<>>, Zero) ELSE Abort(Self))

AdvanceTime ==
    /\ ticks < MaxTicks
    /\ \E step \in TimeSteps :
         /\ block_timestamp' = block_timestamp + step
         /\ last' = [call |-> Called("block", current_account_id, [step |-> step]),
                     ok |-> TRUE, ret |-> Zero]
    /\ ticks' = ticks + 1
    /\ UNCHANGED <<farm, overflow_checks, promises, stakes, touches, unstakes>>

Next ==
    \/ StakeMyObs
    \/ UnstakeMyObs
    \/ RegisterAccount
    \/ GetRewardBalance
    \/ AccountExists
    \/ GetStats
    \/ FtOnTransfer
    \/ OnTransfer
    \/ ExecuteReceipt
    \/ AdvanceTime

Spec == Init /\ [][Next]_vars

(***************************************************************************)
(* touch on its own: a stored account with a balance is touched and saved, *)
(* as register_account does (get_mut_account, then save_account), while    *)
(* the timestamp advances                                                  *)
(***************************************************************************)
InitTouch ==
    /\ \E obs_balance \in TouchBalances, reward_balance \in TouchRewards,
          deposit_time \in TouchDeposits :
          /\ accounts = [h \in {ShortAccountHash("alice")} |->
                            [last_obs_per_reward_rate |-> Zero,
                             obs_balance |-> obs_balance,
                             reward_balance |-> reward_balance,
                             reward_claimed |-> Zero,
                             deposit_time |-> deposit_time]]
          /\ total_obs_balance = obs_balance
          /\ total_reward_farmed = reward_balance
          /\ block_timestamp = deposit_time
    /\ obs_per_reward_rate = Zero
    /\ total_reward_claimed = Zero
    /\ overflow_checks \in BOOLEAN
    /\ promises = EmptyBag
    /\ last = [call |-> Called("new", current_account_id, << >>), ok |-> TRUE, ret |-> Zero]
    /\ ticks = 0
    /\ stakes = <<>>
    /\ touches = <<>>
    /\ unstakes = [account_id \in Users |-> Zero]

Touched(predecessor, r) ==
    /\ Return(Called("register_account", predecessor, << >>), r)
    /\ touches' = Append(touches,
                         [account |-> get_internal_account(Self, predecessor).account,
                          total_reward_farmed |-> total_reward_farmed,
                          now |-> block_timestamp,
                          ok |-> ~r.panic,
                          touched |-> get_internal_account(r.self, predecessor).account,
                          farmed |-> r.self.total_reward_farmed])
    /\ UNCHANGED <<stakes, unstakes>>

TouchAccount ==
    /\ Len(touches) < MaxTouches
    /\ \E predecessor \in Stakers :
         Touched(predecessor, register_account(Self, predecessor))

NextTouch ==
    \/ TouchAccount
    \/ AdvanceTime

SpecTouch == InitTouch /\ [][NextTouch]_vars

(***************************************************************************)
(* Properties of the calls (Spec)                                          *)
(***************************************************************************)
\* the record a call of account_id works on: the stored one, or the one
\* get_mut_account makes up
RecordOf(self, account_id) ==
    IF get_internal_account(self, account_id).some
    THEN get_internal_account(self, account_id).account
    ELSE NewAccount(self)

\* amount + amount * staking_fee_rate * 10^18, as a Balance
Gross(amount) ==
    TruncBits(BigAdd(amount, BigMul(BigMul(amount, FromNat(staking_fee_rate)),
                                    OBS_PER_REWARD_DENOM)),
              128)

RECURSIVE LedgerSum(_, _)
\* the sum of obs_balance over the accounts stored under the keys S
LedgerSum(self, S) ==
    IF S = {} THEN Zero
    ELSE BigAdd(self.accounts[CHOOSE h \in S : TRUE].obs_balance,
                LedgerSum(self, S \ {CHOOSE h \in S : TRUE}))

\* the last stake that returned was stakes[i], by caller
LastStakeOf(caller, i) ==
    /\ stakes[i].caller = caller
    /\ \A j \in (i + 1)..Len(stakes) : stakes[j].caller # caller

\* caller staked, the lock-up of that stake has elapsed, and amount is
\* positive and at most the balance that stake recorded
Unstakable(caller, amount, now) ==
    \E i \in 1..Len(stakes) :
        /\ LastStakeOf(caller, i)
        /\ now - stakes[i].account.deposit_time >= cliff_time
        /\ BigLess(Zero, amount)
        /\ BigLeq(amount, stakes[i].account.obs_balance)

\* C1: after a stake_my_obs(amount) that returned, with amount > 0, the ledger
\* holds a record of the caller whose obs_balance is
\* amount + amount * staking_fee_rate * 10^18, and total_obs_balance has
\* grown by that quantity.
C1_StakeRecordsGross ==
    [][(last'.call.op = "stake_my_obs" /\ last'.ok)
       => /\ get_internal_account(Self', last'.call.caller).some
          /\ RecordOf(Self', last'.call.caller).obs_balance
               = Gross(last'.call.args.amount)
          /\ total_obs_balance'
               = TruncBits(BigAdd(total_obs_balance, Gross(last'.call.args.amount)), 128)]_vars

\* a stake of a positive amount has just returned
C1_StakeReturned ==
    /\ last.call.op = "stake_my_obs"
    /\ last.ok
    /\ BigLess(Zero, last.call.args.amount)
    /\ BigLess(Zero, total_obs_balance)

\* C2: Unstaked -> Staked -> Unstaked. After a stake_my_obs that returned, once
\* block_timestamp - deposit_time >= cliff_time, unstake_my_obs(a) by the same
\* account with one yocto attached returns for every a with
\* 0 < a <= the obs_balance that stake recorded.
C2_UnstakeAfterCliffReturns ==
    [][(/\ last'.call.op = "unstake_my_obs"
        /\ last'.call.args.attached = 1
        /\ Unstakable(last'.call.caller, last'.call.args.amount, block_timestamp))
       => last'.ok]_vars

\* an unstake of a staked amount, after the lock-up, has just been called
C2_UnstakeOfStakedCalled ==
    /\ last.call.op = "unstake_my_obs"
    /\ last.call.args.attached = 1
    /\ Unstakable(last.call.caller, last.call.args.amount, block_timestamp)

\* C3: between calls, total_obs_balance is the sum of obs_balance over the
\* accounts stored in the ledger.
C3_TotalIsLedgerSum == total_obs_balance = LedgerSum(Self, DOMAIN accounts)

\* a stake has returned and its caller is stored in the ledger
C3_StakedAndStored ==
    /\ Len(stakes) > 0
    /\ get_internal_account(Self, stakes[1].caller).some
    /\ BigLess(Zero, total_obs_balance)

\* C4: get_reward_balance is read-only: whatever the account id, a call leaves
\* total_reward_farmed, the other aggregates and every stored account as they
\* were.
C4_GetRewardBalanceReadOnly ==
    [][last'.call.op = "get_reward_balance" => farm' = farm]_vars

\* get_reward_balance of a stored account has returned, after a stake and
\* more than a lock-up later
C4_RewardBalanceRead ==
    /\ last.call.op = "get_reward_balance"
    /\ last.ok
    /\ get_internal_account(Self, last.call.caller).some
    /\ Len(stakes) > 0
    /\ block_timestamp - stakes[1].account.deposit_time > cliff_time

\* C5: unstake_my_obs(amount) fails whenever
\* block_timestamp - deposit_time < cliff_time for the caller's account, for
\* every amount <= its obs_balance.
C5_UnstakeBeforeCliffFails ==
    [][(/\ last'.call.op = "unstake_my_obs"
        /\ block_timestamp - RecordOf(Self, last'.call.caller).deposit_time < cliff_time
        /\ BigLeq(last'.call.args.amount, RecordOf(Self, last'.call.caller).obs_balance))
       => ~last'.ok]_vars

\* an unstake within the balance, with one yocto, was called before the
\* lock-up elapsed, and failed
C5_UnstakeBeforeCliffCalled ==
    /\ last.call.op = "unstake_my_obs"
    /\ last.call.args.attached = 1
    /\ BigLeq(last.call.args.amount, RecordOf(Self, last.call.caller).obs_balance)
    /\ block_timestamp - RecordOf(Self, last.call.caller).deposit_time < cliff_time
    /\ ~last.ok

\* C6: unstake_my_obs(amount) fails whenever amount > the caller's obs_balance,
\* whatever the time since the deposit.
C6_UnstakeAboveBalanceFails ==
    [][(/\ last'.call.op = "unstake_my_obs"
        /\ BigLess(RecordOf(Self, last'.call.caller).obs_balance, last'.call.args.amount))
       => ~last'.ok]_vars

\* an unstake above the balance, with one yocto, was called after the lock-up,
\* and failed
C6_UnstakeAboveBalanceCalled ==
    /\ last.call.op = "unstake_my_obs"
    /\ last.call.args.attached = 1
    /\ BigLess(RecordOf(Self, last.call.caller).obs_balance, last.call.args.amount)
    /\ block_timestamp - RecordOf(Self, last.call.caller).deposit_time >= cliff_time
    /\ ~last.ok

\* the call fails a precondition of stake_my_obs: no one-yocto payment, or amount = 0
StakeRefused(call) ==
    /\ call.op = "stake_my_obs"
    /\ call.args.attached # 1 \/ call.args.amount = Zero

\* the call fails a precondition of unstake_my_obs: no one-yocto payment, a
\* balance below amount, or a lock-up not elapsed
UnstakeRefused(call, account, now) ==
    /\ call.op = "unstake_my_obs"
    /\ \/ call.args.attached # 1
       \/ BigLess(account.obs_balance, call.args.amount)
       \/ now - account.deposit_time < cliff_time

\* C7: a stake_my_obs or unstake_my_obs that fails a precondition fails, leaves
\* every stored account and every aggregate as before the call and schedules
\* no transfer.
C7_RefusedCallChangesNothing ==
    [][(\/ StakeRefused(last'.call)
        \/ UnstakeRefused(last'.call, RecordOf(Self, last'.call.caller), block_timestamp))
       => /\ ~last'.ok
          /\ farm' = farm
          /\ promises' = promises]_vars

\* an unstake above the balance has failed, after a stake whose transfer is
\* still in flight
C7_RefusedAfterStake ==
    /\ UnstakeRefused(last.call, RecordOf(Self, last.call.caller), block_timestamp)
    /\ last.call.args.attached = 1
    /\ ~last.ok
    /\ BigLess(Zero, total_obs_balance)
    /\ promises # EmptyBag

(***************************************************************************)
(* Properties of touch (SpecTouch)                                         *)
(***************************************************************************)
\* block_timestamp - deposit_time at the touch t
Elapsed(t) == t.now - t.account.deposit_time

\* floor(x / reward_interval)
FloorByInterval(x) ==
    BigDivSmall(BigDivSmall(x, IntervalFactor), reward_interval \div IntervalFactor)

\* floor(s * elapsed * reward_rate / reward_interval) * 10^18 at the touch t
EarnedAt(t) ==
    BigMul(FloorByInterval(BigMul(BigMul(t.account.obs_balance, FromNat(Elapsed(t))),
                                  FromNat(reward_rate))),
           OBS_PER_REWARD_DENOM)

\* the touch t returned, more than cliff_time after the deposit
PastCliff(t) == t.ok /\ Elapsed(t) > cliff_time

\* C8: a touch at elapsed = block_timestamp - deposit_time > cliff_time of an
\* account with obs_balance s and reward_balance r leaves reward_balance at
\* r + floor(s * elapsed * reward_rate / reward_interval) * 10^18, the division
\* floored before the multiplication, and raises total_reward_farmed by the
\* same amount.
C8_TouchPastCliffAccrues ==
    \A i \in 1..Len(touches) :
        PastCliff(touches[i])
        => /\ touches[i].touched.reward_balance
                = BigAdd(touches[i].account.reward_balance, EarnedAt(touches[i]))
           /\ touches[i].farmed
                = BigAdd(touches[i].total_reward_farmed, EarnedAt(touches[i]))

\* an account with obs_balance 1000 was touched past the cliff, at an elapsed
\* time the division does not come out even for
C8_TouchedPastCliff ==
    \E i \in 1..Len(touches) :
        /\ PastCliff(touches[i])
        /\ touches[i].account.obs_balance = FromNat(1000)
        /\ BigLess(EarnedAt(touches[i]),
                   FloorByInterval(BigMul(BigMul(BigMul(touches[i].account.obs_balance,
                                                        FromNat(Elapsed(touches[i]))),
                                                 FromNat(reward_rate)),
                                          OBS_PER_REWARD_DENOM)))

\* C9: touch is not idempotent past the cliff: two touches of an account in a
\* row, both more than cliff_time after the same deposit_time, add what each
\* computed as earned to reward_balance and to total_reward_farmed, so the
\* amount is added twice.
C9_TwoTouchesAccrueTwice ==
    \A i \in 1..(Len(touches) - 1) :
        (/\ PastCliff(touches[i])
         /\ PastCliff(touches[i + 1])
         /\ touches[i + 1].account.deposit_time = touches[i].account.deposit_time)
        => /\ touches[i + 1].touched.reward_balance
                = BigAdd(BigAdd(touches[i].account.reward_balance, EarnedAt(touches[i])),
                         EarnedAt(touches[i + 1]))
           /\ touches[i + 1].farmed
                = BigAdd(BigAdd(touches[i].total_reward_farmed, EarnedAt(touches[i])),
                         EarnedAt(touches[i + 1]))

\* an account that earns was touched twice at one timestamp past the cliff, and
\* the second touch raised its reward_balance again
C9_TouchedTwicePastCliff ==
    \E i \in 1..(Len(touches) - 1) :
        /\ PastCliff(touches[i])
        /\ PastCliff(touches[i + 1])
        /\ touches[i + 1].now = touches[i].now
        /\ BigLess(Zero, EarnedAt(touches[i]))
        /\ BigLess(touches[i].touched.reward_balance, touches[i + 1].touched.reward_balance)

\* C10: a touch at elapsed = block_timestamp - deposit_time <= cliff_time, 0 and
\* cliff_time included, leaves the account's reward_balance and
\* total_reward_farmed as they were.
C10_TouchWithinCliffAccruesNothing ==
    \A i \in 1..Len(touches) :
        Elapsed(touches[i]) <= cliff_time
        => /\ touches[i].touched.reward_balance = touches[i].account.reward_balance
           /\ touches[i].farmed = touches[i].total_reward_farmed

\* an account that would earn was touched at elapsed = 0 and again at
\* elapsed = cliff_time, and both touches returned
C10_TouchedAtZeroAndAtCliff ==
    /\ Len(touches) > 1
    /\ touches[1].ok
    /\ Elapsed(touches[1]) = 0
    /\ touches[2].ok
    /\ Elapsed(touches[2]) = cliff_time
    /\ BigLess(Zero, EarnedAt(touches[2]))

(***************************************************************************)
(* Properties of the calls, continued (Spec)                               *)
(***************************************************************************)
\* C11: right after a stake_my_obs that returned at block_timestamp t, the
\* record it built for the caller has reward_balance = 0, reward_claimed = 0
\* and deposit_time = t, whatever the account was before and whether or not t
\* is past cliff_time.
C11_StakeResetsRecord ==
    [][(last'.call.op = "stake_my_obs" /\ last'.ok)
       => /\ last'.ret.reward_balance = Zero
          /\ last'.ret.reward_claimed = Zero
          /\ last'.ret.deposit_time = block_timestamp]_vars

\* a stake has just returned, more than cliff_time after the farm was made
C11_StakedPastCliff ==
    /\ last.call.op = "stake_my_obs"
    /\ last.ok
    /\ block_timestamp > cliff_time

\* C12: an unstake_my_obs(amount) that returned leaves the caller's record in
\* the ledger with obs_balance reduced by amount, reward_balance = 0 and
\* reward_claimed = the reward_balance touch left, and total_obs_balance
\* reduced by amount.
C12_UnstakeUpdatesRecord ==
    [][(last'.call.op = "unstake_my_obs" /\ last'.ok)
       => /\ get_internal_account(Self', last'.call.caller).some
          /\ RecordOf(Self', last'.call.caller).obs_balance
               = BigSub(RecordOf(Self, last'.call.caller).obs_balance,
                        last'.call.args.amount)
          /\ RecordOf(Self', last'.call.caller).reward_balance = Zero
          /\ RecordOf(Self', last'.call.caller).reward_claimed
               = touch(Self, RecordOf(Self, last'.call.caller)).account.reward_balance
          /\ total_obs_balance' = BigSub(total_obs_balance, last'.call.args.amount)]_vars

\* an unstake has just returned, after a stake by the same caller
C12_UnstakeReturned ==
    /\ last.call.op = "unstake_my_obs"
    /\ last.ok
    /\ Len(stakes) > 0
    /\ stakes[1].caller = last.call.caller

\* the step registers caller: its key is stored from then on and no other key
\* is added, the stored record has no balance, and a record that was stored
\* already is left as it was
Registers(caller) ==
    /\ last'.ok
    /\ DOMAIN accounts' = DOMAIN accounts \cup {ShortAccountHash(caller)}
    /\ accounts'[ShortAccountHash(caller)].obs_balance = Zero
    /\ accounts'[ShortAccountHash(caller)].reward_balance = Zero
    /\ accounts'[ShortAccountHash(caller)].reward_claimed = Zero
    /\ ShortAccountHash(caller) \in DOMAIN accounts => accounts' = accounts

\* C13: account_exists(id) is false for an account that never called
\* register_account (no key is stored at first, and no other call stores one);
\* after register_account by that account, whenever it is called, it is true
\* and the stored record has obs_balance, reward_balance and reward_claimed 0;
\* registering again leaves the record unchanged.
C13_RegisteredThenExists ==
    /\ accounts = << >>
    /\ [][/\ last'.call.op = "register_account" => Registers(last'.call.caller)
          /\ last'.call.op # "register_account" => DOMAIN accounts' = DOMAIN accounts
          /\ last'.call.op = "account_exists"
               => last'.ret = (ShortAccountHash(last'.call.caller) \in DOMAIN accounts)]_vars

\* account_exists has just returned true for one account, past the lock-up
\* period, while the other account is not stored
C13_ExistsAfterRegister ==
    /\ last.call.op = "account_exists"
    /\ last.ret = TRUE
    /\ block_timestamp > cliff_time
    /\ \E account_id \in Users : ~account_exists(Self, account_id)

\* C14: ft_on_transfer fails and changes nothing whenever its predecessor is not
\* obs_token_account_id; called by obs_token_account_id with msg "Stake" it
\* returns 0 (and schedules nothing).
C14_NotifyOnlyFromObsToken ==
    [][last'.call.op = "ft_on_transfer"
       => /\ last'.call.caller # obs_token_account_id
               => ~last'.ok /\ farm' = farm /\ promises' = promises
          /\ (last'.call.caller = obs_token_account_id /\ last'.call.args.msg = "Stake")
               => last'.ok /\ last'.ret = Zero /\ farm' = farm /\ promises' = promises]_vars

\* ft_on_transfer was called by an account that is not the obs token, after a
\* stake, and failed
C14_NotifyRejected ==
    /\ last.call.op = "ft_on_transfer"
    /\ last.call.caller # obs_token_account_id
    /\ ~last.ok
    /\ BigLess(Zero, total_obs_balance)

\* the call is an event of the settlement: a scheduled receipt that is executed
\* (a transfer that succeeds or fails, or the farm's call of itself), or a call
\* of ft_on_transfer or on_transfer
SettlementEvent(call) == call.op \in {"receipt", "ft_on_transfer", "on_transfer"}

\* C15: once a stake or an unstake has returned, no later event of the
\* settlement (either chained transfer succeeding or failing, in any order or
\* never, a call of ft_on_transfer or of on_transfer) changes a stored account
\* or an aggregate: nothing is rolled back or reconciled.
C15_SettlementChangesNothing ==
    [][SettlementEvent(last'.call) => farm' = farm]_vars

\* the transfer of a stake that returned has just failed, and the farm still
\* counts the stake
C15_TransferOfStakeFailed ==
    /\ last.call.op = "receipt"
    /\ last.call.args.method = "ft_transfer"
    /\ ~last.ok
    /\ Len(stakes) > 0
    /\ total_obs_balance = stakes[1].account.obs_balance
    /\ BigLess(Zero, total_obs_balance)

\* amount + amount * staking_fee_rate * 10^18, exactly
GrossExact(amount) ==
    BigAdd(amount, BigMul(BigMul(amount, FromNat(staking_fee_rate)),
                          OBS_PER_REWARD_DENOM))

\* floor(gross * elapsed * reward_rate / reward_interval) * 10^18, exactly
EarnedExact(gross, elapsed) ==
    BigMul(FloorByInterval(BigMul(BigMul(gross, FromNat(elapsed)), FromNat(reward_rate))),
           OBS_PER_REWARD_DENOM)

\* a computation of this stake_my_obs leaves its integer's range: the fee or
\* the gross amount exceed 128 bits, block_timestamp - cliff_time is below 0,
\* or what touch computes as earned exceeds 128 bits
StakeOverflows(call, account, now) ==
    /\ call.op = "stake_my_obs"
    /\ call.args.attached = 1
    /\ BigLess(Zero, call.args.amount)
    /\ \/ ~FitsBits(GrossExact(call.args.amount), 128)
       \/ now < cliff_time
       \/ ~FitsBits(EarnedExact(GrossExact(call.args.amount), now - account.deposit_time),
                    128)

\* C16: arithmetic overflow is fatal and never wraps: a stake_my_obs in which
\* a computation exceeds its integer's width or goes below 0 fails and leaves
\* the stored accounts, the aggregates and the scheduled promises unchanged.
C16_OverflowIsFatal ==
    [][StakeOverflows(last'.call, RecordOf(Self, last'.call.caller), block_timestamp)
       => /\ ~last'.ok
          /\ farm' = farm
          /\ promises' = promises]_vars

\* a stake whose gross amount exceeds 128 bits has just been called
C16_StakeOverflowed ==
    /\ last.call.op = "stake_my_obs"
    /\ last.call.args.attached = 1
    /\ ~FitsBits(GrossExact(last.call.args.amount), 128)

\* the call is the execution of an on_transfer that the farm scheduled for
\* itself: by ft_on_transfer for a msg other than "Stake", or after the
\* transfer of a stake
SelfNotification(call) ==
    /\ call.op = "receipt"
    /\ call.args.receiver_id = current_account_id
    /\ call.args.method = "on_transfer"

\* C17: the on_transfer the farm issues to itself (forwarded by ft_on_transfer
\* for a msg other than "Stake", or chained after the transfer of a stake) is
\* accepted by on_transfer, which returns without changing the ledger.
C17_SelfNotificationAccepted ==
    [][SelfNotification(last'.call) => last'.ok /\ farm' = farm]_vars

\* an on_transfer that ft_on_transfer forwarded has just been executed
C17_SelfNotificationExecuted ==
    /\ SelfNotification(last.call)
    /\ last.call.args.args.receiver = obs_token_account_id

(***************************************************************************)
(* unstake_my_obs on its own: the ledger holds a record with a balance, as *)
(* it would had the stake been saved, and its owner unstakes while the     *)
(* timestamp advances.  The transfers scheduled stay in flight.            *)
(***************************************************************************)
NextUnstake ==
    \/ UnstakeMyObs
    \/ AdvanceTime

SpecUnstake == InitTouch /\ [][NextUnstake]_vars

\* the ft_transfer of amount to receiver_id that the farm asks of token
TransferRequest(token, receiver_id, amount) ==
    [receiver_id |-> token, method |-> "ft_transfer",
     args |-> [receiver_id |-> receiver_id, amount |-> amount], deposit |-> 1]

\* C18: an unstake_my_obs(amount) that returned has scheduled exactly one chain
\* of two transfers, both to the caller and both of
\* amount + amount * staking_fee_rate * 10^18: the first asked of the obs
\* token, the second of the reward token, whatever the account's
\* reward_balance and reward_claimed.
C18_UnstakeSchedulesTwoTransfers ==
    [][(last'.call.op = "unstake_my_obs" /\ last'.ok)
       => promises' = promises (+) SetToBag({
              <<TransferRequest(obs_token_account_id, last'.call.caller,
                                GrossExact(last'.call.args.amount)),
                TransferRequest(reward_token_account_id, last'.call.caller,
                                GrossExact(last'.call.args.amount))>>})]_vars

\* an unstake of a positive amount has just returned, for an account that had
\* earned a reward
C18_UnstakedWithReward ==
    /\ last.call.op = "unstake_my_obs"
    /\ last.ok
    /\ BigLess(Zero, last.call.args.amount)
    /\ BigLess(Zero, last.ret.reward_claimed)
    /\ promises # EmptyBag

\* C19: in every state, every account stored in the ledger has obs_balance,
\* reward_balance and reward_claimed 0 and deposit_time 0 (register_account is
\* the only call that writes the ledger), and so get_reward_balance has
\* returned 0 whenever it was the last call.
C19_StoredAccountsAreZero ==
    /\ \A h \in DOMAIN accounts :
          /\ accounts[h].obs_balance = Zero
          /\ accounts[h].reward_balance = Zero
          /\ accounts[h].reward_claimed = Zero
          /\ accounts[h].deposit_time = 0
    /\ last.call.op = "get_reward_balance" => last.ok /\ last.ret = Zero

\* get_reward_balance has just returned for the stored account of a caller
\* whose stake returned more than a lock-up period ago
C19_RewardOfStakerRead ==
    /\ last.call.op = "get_reward_balance"
    /\ Len(stakes) > 0
    /\ last.call.caller = stakes[1].caller
    /\ get_internal_account(Self, last.call.caller).some
    /\ block_timestamp - stakes[1].account.deposit_time > cliff_time
    /\ BigLess(Zero, stakes[1].account.obs_balance)

(***************************************************************************)
(* Properties of the calls, continued (Spec)                               *)
(***************************************************************************)
RECURSIVE StakedSum(_, _)
\* the sum of what the first n stakes that returned asked the obs token to
\* transfer to the farm for caller
StakedSum(caller, n) ==
    IF n = 0 THEN Zero
    ELSE BigAdd(IF stakes[n].caller = caller THEN stakes[n].account.obs_balance ELSE Zero,
                StakedSum(caller, n - 1))

\* C20: solvency: in every state and for every account, the sum of the obs
\* token amounts the farm asked to pay out to it through unstake_my_obs is at
\* most the sum of the amounts (gross) the farm asked to take in for it
\* through stake_my_obs.
C20_PaidOutAtMostTakenIn ==
    \A account_id \in Users :
        BigLeq(unstakes[account_id], StakedSum(account_id, Len(stakes)))

\* an unstake has just returned, with its transfers scheduled, for a caller
\* whose stake returned at least a lock-up period before
C20_UnstakedAfterStake ==
    /\ last.call.op = "unstake_my_obs"
    /\ last.ok
    /\ promises # EmptyBag
    /\ BigLess(Zero, StakedSum(last.call.caller, Len(stakes)))
    /\ block_timestamp - stakes[1].account.deposit_time >= cliff_time

=============================================================================
